---- MODULE Spec2Model ----
(***************************************************************************)
(* Model of rdm_core: the range fetcher (download_segment), the range      *)
(* planner (create_segments) and the MultipartDownloadStrategy life cycle  *)
(* (preprocess, download, postprocess, pause, stop), and the facade        *)
(* HttpDownloader::download with the progress channel and ProgressNotifier.*)
(*                                                                         *)
(* Spec drives the strategy directly, as rdm_core/tests do: no progress    *)
(* sender is attached (progress_tx is None), so the on_progress closure    *)
(* and the error signal do nothing.  FacadeSpec drives it through one      *)
(* HttpDownloader::download() call, as rdm_cli and rdm_server do.          *)
(* PlannerSpec runs create_segments one loop iteration at a time.          *)
(* ReplaceSpec lets preprocess be called again and runs its store of the   *)
(* range map step by step.  FetchSpec calls download_segment directly, as  *)
(* rdm_core/tests/segment_grabber_tests.rs do, and calls it again for a    *)
(* range whose fetch was cancelled.                                        *)
(*                                                                         *)
(* Sizes are in model units: the resource is fileSize bytes long and the   *)
(* byte at offset o has the value o, so that a byte written at the wrong   *)
(* position is visible in the assembled output.                            *)
(***************************************************************************)
EXTENDS Integers, Sequences, FiniteSets, TLC

\* ---------------------------------------------------------------- bounds
MaxFileSize == 4        \* resource sizes 1..MaxFileSize
Connections == 2        \* self.connections (with_connection_size)
MaxChunk == 2           \* largest chunk the body stream yields
MaxObservers == 1       \* FacadeSpec: observers registered by add_observer
MaxPlanSize == 40       \* PlannerSpec: resource sizes 1..MaxPlanSize
MaxPlanConnections == 8
MaxEvents == 3          \* messages sent to a notifier driven on its own
MaxSpeed == 1           \* largest combined speed of a snapshot, bytes/s \* PlannerSpec: max_connections 0..MaxPlanConnections

\* ------------------------------------------------------ program constants
MIN_SEGMENT_SIZE == 2   \* multipart_download_strategy.rs:19, in model units
MAX_RETRIES == 3        \* segment_grabber.rs:120
U64_MAX == 2147483647   \* segment_grabber.rs:197 (u64::MAX: the largest integer)
CHANNEL_CAPACITY == 2   \* http_downloader.rs:35 (mpsc::channel(256)), in model units

VARIABLES
    fileSize,   \* size of the origin resource
    server,     \* how the origin answers range requests
    planned,    \* preprocess has stored a plan
    segments,   \* the strategy's range map: id -> Segment (ids 1..Len)
    cancelled,  \* cancel_token
    call,       \* "idle", "download" while download() awaits its tasks, or
                \* "preprocess" while preprocess holds the map's write guard
    order,      \* ids of the launched tasks in the order of `results`
    pc,         \* per task: position in download_segment
    seg,        \* per task: the task's own Segment
    retries,    \* per task: retries
    remaining,  \* per task: remaining (of the current attempt)
    written,    \* per task: bytes_written (of the current attempt)
    req,        \* per task: the request in flight
    body,       \* per task: the part of the response body not yet delivered
    status,     \* per task: status of the current response
    result,     \* per task: "none", "Finished" (Ok(segment)) or the error
    sent,       \* per task: requests sent by this call (history)
    fails,      \* per task: transport failures seen by this call (history)
    scratch,    \* ids whose scratch file exists in temp_dir
    data,       \* id -> content of the scratch file
    output,     \* the output file
    last,       \* the last call that returned, and what it returned
    progress_tx, \* the strategy holds a progress sender (Some)
    dl_tx,      \* download() and its tasks hold clones of the sender
    chan,       \* messages queued in the progress channel
    facade,     \* position of HttpDownloader::download()
    phases,     \* the strategy phases download() has invoked, each with
                \* what it returned (history)
    ret,        \* what HttpDownloader::download() returned
    notifier,   \* the aggregator task: "none", "running" or "done"
    aggregate,  \* the notifier's `segments` and `segment_order`
    observers,  \* the observers registered in the running notifier
    observed,   \* observer -> the callbacks it has received
    plan_size,  \* create_segments: its argument file_size
    plan_connections, \* create_segments: its argument max_connections
    plan,       \* create_segments: its local `segments`
    planning,   \* create_segments is in its loop
    received,   \* the events handle_event has been called with (history)
    delivered,  \* the snapshot last passed to the observers, and the
                \* callback it was passed to
    downloads,  \* rdm_server: the status of the download's entry in
                \* AppState::downloads, or "absent"
    registrar,  \* rdm_server: the task that inserts the entry
    dl_task,    \* rdm_server: the task that runs the download
    canceller   \* rdm_server: a cancel_handler call for the download

envv   == <<fileSize, server>>
taskv  == <<pc, seg, retries, remaining, written, req, body, status, result, sent, fails>>
fsv    == <<scratch, data, output>>
stratv == <<planned, segments, cancelled, call, order, last>>
chanv  == <<progress_tx, dl_tx, chan>>
facv   == <<facade, phases, ret, notifier, aggregate, observers, observed>>
planv  == <<plan_size, plan_connections, plan, planning>>
histv  == <<received, delivered>>
srvv   == <<downloads, registrar, dl_task, canceller>>
vars   == <<envv, taskv, fsv, stratv, chanv, facv, planv, histv, srvv>>

Ids == 1..Connections
Observers == 1..MaxObservers
\* "range":   206 with exactly the requested bytes
\* "lies200": 206 to the probe, 200 with the whole resource to range requests
\* "lies206": 206 with the whole resource to range requests
\* "short":   206 with a body that ends before the requested bytes are sent
\* "norange": 200 with the whole resource to every request
\* "nosize":  206 to the probe, without Content-Range or Content-Length
\* "error500": 206 to the probe, 500 with an error page to every request
\* "refuse":  every connection is refused: no request gets a response
\* Any request may also fail in transport (send_err, chunk_err).
Servers == {"range", "lies200", "lies206", "short", "norange", "nosize",
            "error500", "refuse"}
UNKNOWN == 0 - 1        \* length of an unbounded segment

Min(a, b) == IF a < b THEN a ELSE b

\* bytes of the resource at offsets a..b (inclusive)
Slice(a, b) == [k \in 1..(b - a + 1) |-> a + k - 1]
Origin == Slice(0, fileSize - 1)
\* the body of an error response: one byte that is none of the resource's
ErrorPage == <<0 - 1>>

Take(s, n) == SubSeq(s, 1, n)
Drop(s, n) == SubSeq(s, n + 1, Len(s))

\* ---------------------------------------------------------------- types
Segment_new(id, offset, length) ==
    [id |-> id, offset |-> offset, length |-> length,
     downloaded |-> 0, state |-> "NotStarted"]

Returned(op, res) == [op |-> op, res |-> res]

NoSegment == Segment_new(0, 0, UNKNOWN)
NoRequest == [ranged |-> FALSE, start |-> 0, end |-> 0]

\* --------------------------------------------------------------- planner
\* mutant: min_by_key, the first index of the smallest length
min_idx(segs) ==
    CHOOSE i \in 1..Len(segs) :
        \A j \in 1..Len(segs) :
            \/ segs[j].length > segs[i].length
            \/ segs[j].length = segs[i].length /\ j >= i

\* max_by_key: the index of the largest length, the last one among equals
max_idx(segs) ==
    CHOOSE i \in 1..Len(segs) :
        \A j \in 1..Len(segs) :
            \/ segs[j].length < segs[i].length
            \/ segs[j].length = segs[i].length /\ j <= i

\* mutant: a segment is split as long as it is not below MIN_SEGMENT_SIZE
may_split_below_min(segs, max_connections) ==
    /\ Len(segs) < max_connections
    /\ segs[max_idx(segs)].length >= MIN_SEGMENT_SIZE

\* mutant: a segment of exactly MIN_SEGMENT_SIZE * 2 is not split
may_split_strict(segs, max_connections) ==
    /\ Len(segs) < max_connections
    /\ segs[max_idx(segs)].length > MIN_SEGMENT_SIZE * 2

\* `segments.len() < max_connections` and the largest segment is not below
\* MIN_SEGMENT_SIZE * 2 (lines 122, 134): the loop goes round once more
may_split(segs, max_connections) ==
    /\ Len(segs) < max_connections
    /\ segs[max_idx(segs)].length >= MIN_SEGMENT_SIZE * 2

\* mutant: both halves get `half` bytes
split_largest_even(segs) ==
    LET m == max_idx(segs)
        s == segs[m]
        half == s.length \div 2
    IN  Append([segs EXCEPT ![m].length = half],
               Segment_new(Len(segs) + 1, s.offset + half, half))

\* lines 143-160: the largest segment keeps its first half, the second half
\* is pushed as a new segment
split_largest(segs) ==
    LET m == max_idx(segs)
        s == segs[m]
        half == s.length \div 2
    IN  Append([segs EXCEPT ![m].length = half],
               Segment_new(Len(segs) + 1, s.offset + half, s.length - half))

\* lines 122-161: the halving loop
RECURSIVE halve(_, _)
halve(segs, max_connections) ==
    IF may_split(segs, max_connections)
    THEN halve(split_largest(segs), max_connections)
    ELSE segs

create_segments(file_size, max_connections) ==
    halve(<<Segment_new(1, 0, file_size)>>, max_connections)

\* ---------------------------------------------------------------- origin
\* probe_url gets a response (segment_grabber.rs:61)
ProbeAnswered == server # "refuse"

\* what probe_url reports of the origin: resumable (line 63) and
\* resource_size (lines 67-73)
ProbeResumable == server # "norange"
ProbeSize == IF server = "nosize" THEN UNKNOWN ELSE fileSize

\* the responses the origin may give to a request
Responses(r) ==
    LET part == Slice(r.start, r.end)
    IN  IF server = "refuse" THEN {}
        ELSE IF server = "error500" THEN {[status |-> 500, body |-> ErrorPage]}
        ELSE IF ~r.ranged \/ server \in {"lies200", "norange"}
        THEN {[status |-> 200, body |-> Origin]}
        ELSE IF server = "lies206" THEN {[status |-> 206, body |-> Origin]}
        ELSE IF server = "range" THEN {[status |-> 206, body |-> part]}
        ELSE {[status |-> 206, body |-> Take(part, k)] : k \in 0..(Len(part) - 1)}

\* the callbacks an observer has received: how many of each kind, and
\* whether one came after on_complete or on_error
NoCallbacks == [on_progress |-> 0, on_complete |-> 0, on_error |-> 0,
                late |-> FALSE]

\* ProgressNotifier::new (notifier.rs:41-48): no segment is tracked
ProgressNotifier_new ==
    [segments |-> [i \in {} |-> [bytes_downloaded |-> 0, total_bytes |-> 0]],
     segment_order |-> <<>>]

\* no HttpDownloader: the caller drives the strategy itself
NoFacade ==
    /\ facade = "none"
    /\ phases = <<>>
    /\ ret = "none"
    /\ notifier = "none"
    /\ aggregate = ProgressNotifier_new
    /\ observers = {}
    /\ observed = [o \in Observers |-> NoCallbacks]

\* create_segments is not running on its own
NoPlanner ==
    /\ plan_size = 0
    /\ plan_connections = 0
    /\ plan = <<>>
    /\ planning = FALSE

\* MultipartDownloadStrategy::new, and the origin it will talk to
StrategyInit ==
    /\ fileSize \in 1..MaxFileSize
    /\ server \in Servers
    /\ planned = FALSE
    /\ segments = <<>>
    /\ cancelled = FALSE
    /\ call = "idle"
    /\ order = <<>>
    /\ pc = [i \in Ids |-> "idle"]
    /\ seg = [i \in Ids |-> NoSegment]
    /\ retries = [i \in Ids |-> 0]
    /\ remaining = [i \in Ids |-> 0]
    /\ written = [i \in Ids |-> 0]
    /\ req = [i \in Ids |-> NoRequest]
    /\ body = [i \in Ids |-> <<>>]
    /\ status = [i \in Ids |-> 0]
    /\ result = [i \in Ids |-> "none"]
    /\ sent = [i \in Ids |-> 0]
    /\ fails = [i \in Ids |-> 0]
    /\ scratch = {}
    /\ data = [i \in Ids |-> <<>>]
    /\ output = [exists |-> FALSE, data |-> <<>>]
    /\ last = Returned("new", "Ok")
    /\ progress_tx = FALSE
    /\ dl_tx = FALSE
    /\ chan = <<>>

\* a rational number, for the f64 quotients of the snapshots
Zero == [num |-> 0, den |-> 1]

\* no snapshot has been built yet
NoSnapshot ==
    [callback |-> "none",
     snapshot |-> [segments |-> <<>>, total_bytes_downloaded |-> 0,
                   total_bytes |-> 0, eta_secs |-> Zero, done |-> FALSE]]

\* the notifier has handled no event and called no observer
NothingDelivered ==
    /\ received = <<>>
    /\ delivered = NoSnapshot

\* no server: nothing is dispatched through rdm_server
NoServer ==
    /\ downloads = "absent"
    /\ registrar = "none"
    /\ dl_task = "none"
    /\ canceller = "none"

Init == StrategyInit /\ NoFacade /\ NoPlanner /\ NothingDelivered /\ NoServer

\* ------------------------------------------------------------ preprocess
\* lines 236-251
preprocess_plan ==
    IF ProbeResumable /\ ProbeSize # UNKNOWN
    THEN create_segments(ProbeSize, Connections)
    ELSE <<Segment_new(1, 0, UNKNOWN)>>

\* lines 208-263: the probe answers; the plan replaces the range map
preprocess_ok ==
    /\ call = "idle"
    /\ ~planned
    /\ ProbeAnswered
    /\ planned' = TRUE
    /\ segments' = preprocess_plan
    /\ last' = Returned("preprocess", "Ok")
    /\ UNCHANGED <<envv, chanv, taskv, fsv, cancelled, call, order>>

\* line 213: the probe fails in transport
preprocess_probe_err ==
    /\ call = "idle"
    /\ ~planned
    /\ last' = Returned("preprocess", "Network")
    /\ UNCHANGED <<envv, chanv, taskv, fsv, planned, segments, cancelled, call, order>>

\* mutant: the plan is stored before the scratch directory is created
preprocess_dir_err_after_store ==
    /\ call = "idle"
    /\ ~planned
    /\ ProbeAnswered
    /\ segments' = preprocess_plan
    /\ last' = Returned("preprocess", "Disk")
    /\ UNCHANGED <<envv, chanv, taskv, fsv, planned, cancelled, call, order>>

\* lines 232-234: the scratch directory cannot be created
preprocess_dir_err ==
    /\ call = "idle"
    /\ ~planned
    /\ ProbeAnswered
    /\ last' = Returned("preprocess", "Disk")
    /\ UNCHANGED <<envv, chanv, taskv, fsv, planned, segments, cancelled, call, order>>

preprocess == preprocess_ok \/ preprocess_probe_err \/ preprocess_dir_err

\* The store of preprocess (lines 253-262) step by step; `call` is
\* "preprocess" while preprocess holds the write guard of the range map, and
\* every other user of the map waits for the guard.
\* lines 255-256: the write guard is taken and the map cleared
preprocess_store_clear ==
    /\ call = "idle"
    /\ ProbeAnswered
    /\ call' = "preprocess"
    /\ segments' = <<>>
    /\ UNCHANGED <<envv, chanv, taskv, fsv, planned, cancelled, order, last>>

\* lines 257-259: the next segment of new_segments is inserted
preprocess_store_insert ==
    /\ call = "preprocess"
    /\ Len(segments) < Len(preprocess_plan)
    /\ segments' = Append(segments, preprocess_plan[Len(segments) + 1])
    /\ UNCHANGED <<envv, chanv, taskv, fsv, planned, cancelled, call, order, last>>

\* mutant: the guard is dropped as soon as one segment is inserted
preprocess_store_return_early ==
    /\ call = "preprocess"
    /\ Len(segments) >= 1
    /\ call' = "idle"
    /\ planned' = TRUE
    /\ last' = Returned("preprocess", "Ok")
    /\ UNCHANGED <<envv, chanv, taskv, fsv, segments, cancelled, order>>

\* lines 260-262: the guard is dropped and preprocess returns Ok
preprocess_store_return ==
    /\ call = "preprocess"
    /\ Len(segments) = Len(preprocess_plan)
    /\ call' = "idle"
    /\ planned' = TRUE
    /\ last' = Returned("preprocess", "Ok")
    /\ UNCHANGED <<envv, chanv, taskv, fsv, segments, cancelled, order>>

preprocess_store ==
    preprocess_store_clear \/ preprocess_store_insert \/ preprocess_store_return

\* ------------------------------------------------------------ stop, pause
\* lines 392-395
stop ==
    /\ cancelled' = TRUE
    /\ UNCHANGED <<envv, chanv, taskv, fsv, planned, segments, call, order,
                   last>>

\* mutant: pause waits until no range task is running
pause_waits ==
    /\ \A i \in Ids : pc[i] \in {"idle", "done"}
    /\ cancelled' = TRUE
    /\ UNCHANGED <<envv, chanv, taskv, fsv, planned, segments, call, order,
                   last>>

\* lines 385-390
pause ==
    /\ cancelled' = TRUE
    /\ UNCHANGED <<envv, chanv, taskv, fsv, planned, segments, call, order,
                   last>>

\* ------------------------------------------------------ progress channel
\* the messages of the channel: Result<ProgressEvent, String>
NoEvent == [segment_id |-> 0, bytes_delta |-> 0, total_bytes |-> 0]
ProgressEvent(segment_id, bytes_delta, total_bytes) ==
    [ok |-> TRUE,
     ev |-> [segment_id |-> segment_id, bytes_delta |-> bytes_delta,
             total_bytes |-> total_bytes],
     error |-> ""]
ErrorText(e) == [ok |-> FALSE, ev |-> NoEvent, error |-> e]

\* mutant: a full channel drops its oldest message to take the new one
try_send_evicts(q, msg) ==
    IF notifier # "running" THEN q
    ELSE IF Len(q) >= CHANNEL_CAPACITY THEN Append(Tail(q), msg)
    ELSE Append(q, msg)

\* Sender::try_send: the message is dropped when the channel is full or its
\* receiver is gone
try_send(q, msg) ==
    IF notifier # "running" \/ Len(q) >= CHANNEL_CAPACITY THEN q
    ELSE Append(q, msg)

\* mutant: the closure announces the range's running total
on_progress_running_total(i, bytes_delta) ==
    IF dl_tx
    THEN try_send(chan, ProgressEvent(i, seg[i].downloaded + bytes_delta,
                        IF seg[i].length > 0 THEN seg[i].length ELSE UNKNOWN))
    ELSE chan

\* the on_progress closure download() gives to task i
\* (multipart_download_strategy.rs:309-330)
on_progress(i, bytes_delta) ==
    IF dl_tx
    THEN try_send(chan, ProgressEvent(i, bytes_delta,
                        IF seg[i].length > 0 THEN seg[i].length ELSE UNKNOWN))
    ELSE chan

\* ------------------------------------------------------ download_segment
is_cancelled == cancelled

\* mutant: a retry asks for the range from its first byte again
range_request_restart(s) ==
    IF s.length > 0
    THEN [ranged |-> TRUE, start |-> s.offset, end |-> s.offset + s.length - 1]
    ELSE NoRequest

\* the Range header of the next request (lines 137-150)
range_request(s) ==
    IF s.length > 0
    THEN [ranged |-> TRUE, start |-> s.offset + s.downloaded,
          end |-> s.offset + s.length - 1]
    ELSE NoRequest

\* mutant: the budget is compared with > instead of >=
exhausted_late(r) == r > MAX_RETRIES

\* `retries >= MAX_RETRIES` (lines 264, 297)
exhausted(r) == r >= MAX_RETRIES

\* task i returns r
Return(i, r) ==
    /\ pc' = [pc EXCEPT ![i] = "done"]
    /\ result' = [result EXCEPT ![i] = r]

\* lines 269 and 302: the sleep, in ms, made when the retry counter has
\* just been raised to r: 100u64 * (1u64 << retries.min(5))
delay_ms(r) == 100 * (2 ^ Min(r, 5))

\* lines 262-272 and 295-304: count the failure, give up or back off
transport_failure(i) ==
    /\ retries' = [retries EXCEPT ![i] = @ + 1]
    /\ fails' = [fails EXCEPT ![i] = @ + 1]
    /\ IF exhausted(retries[i] + 1)
       THEN /\ seg' = [seg EXCEPT ![i].state = "Failed"]
            /\ Return(i, "MaxRetryExceeded")
       ELSE /\ pc' = [pc EXCEPT ![i] = "sleep"]
            /\ UNCHANGED <<seg, result>>

\* lines 274-293: flush, mark Finished, return the segment
finish(i, downloaded) ==
    /\ seg' = [seg EXCEPT ![i].downloaded = downloaded, ![i].state = "Finished"]
    /\ Return(i, "Finished")

\* mutant: on cancellation the loop goes round again instead of returning
loop_top_spin(i) ==
    /\ pc[i] = "top"
    /\ IF is_cancelled
       THEN UNCHANGED <<pc, result, req, sent>>
       ELSE /\ pc' = [pc EXCEPT ![i] = "send"]
            /\ req' = [req EXCEPT ![i] = range_request(seg[i])]
            /\ sent' = [sent EXCEPT ![i] = @ + 1]
            /\ UNCHANGED result
    /\ UNCHANGED <<seg, retries, remaining, written, body, status, fails>>
    /\ UNCHANGED <<envv, chanv, fsv, stratv>>

\* lines 127-152: the head of the loop polls the token, then sends a request
loop_top(i) ==
    /\ pc[i] = "top"
    /\ IF is_cancelled
       THEN /\ Return(i, "Cancelled")
            /\ UNCHANGED <<req, sent>>
       ELSE /\ pc' = [pc EXCEPT ![i] = "send"]
            /\ req' = [req EXCEPT ![i] = range_request(seg[i])]
            /\ sent' = [sent EXCEPT ![i] = @ + 1]
            /\ UNCHANGED result
    /\ UNCHANGED <<seg, retries, remaining, written, body, status, fails>>
    /\ UNCHANGED <<envv, chanv, fsv, stratv>>

\* lines 152, 295-304: send() fails
send_err(i) ==
    /\ pc[i] = "send"
    /\ transport_failure(i)
    /\ UNCHANGED <<remaining, written, req, body, status, sent>>
    /\ UNCHANGED <<envv, chanv, fsv, stratv>>

\* mutant: the scratch file is always opened for appending
open_append(s, content) == content

\* lines 179-189: the content of the scratch file once it is opened, for
\* appending when bytes were already downloaded, truncated otherwise
open_scratch(s, content) == IF s.downloaded > 0 THEN content ELSE <<>>

\* lines 153-203: a response arrives; the scratch file is appended to when
\* bytes were already downloaded and created (truncated) otherwise
send_ok(i) ==
    /\ pc[i] = "send"
    /\ seg[i].downloaded > 0 => i \in scratch
    /\ \E resp \in Responses(req[i]) :
        /\ status' = [status EXCEPT ![i] = resp.status]
        /\ body' = [body EXCEPT ![i] = resp.body]
    /\ scratch' = scratch \cup {i}
    /\ data' = [data EXCEPT ![i] = open_scratch(seg[i], @)]
    /\ remaining' = [remaining EXCEPT ![i] =
            IF seg[i].length > 0 THEN seg[i].length - seg[i].downloaded
            ELSE U64_MAX]
    /\ written' = [written EXCEPT ![i] = 0]
    /\ pc' = [pc EXCEPT ![i] = "stream"]
    /\ UNCHANGED <<seg, retries, req, result, sent, fails, output>>
    /\ UNCHANGED <<envv, chanv, stratv>>

\* lines 179-189: opening the scratch file fails
open_err(i) ==
    /\ pc[i] = "send"
    /\ Return(i, "Disk")
    /\ UNCHANGED <<seg, retries, remaining, written, req, body, status, sent, fails>>
    /\ UNCHANGED <<envv, chanv, fsv, stratv>>

\* mutant: the chunk is written whole, without the cap
to_write_uncapped(s, chunk, left) == chunk

\* the part of a chunk that is written (lines 218-224)
to_write(s, chunk, left) ==
    IF s.length > 0 THEN Take(chunk, Min(Len(chunk), left)) ELSE chunk

\* `segment.length > 0 && bytes_written >= remaining` (line 245)
reached(s, bytes_written, rem) == s.length > 0 /\ bytes_written >= rem

\* lines 205-252: the stream yields a chunk of n bytes
chunk_ok(i, n) ==
    /\ pc[i] = "stream"
    /\ n \in 1..Min(MaxChunk, Len(body[i]))
    /\ IF is_cancelled
       THEN /\ Return(i, "Cancelled")
            /\ UNCHANGED <<seg, written, body, data, chan>>
       ELSE LET w == to_write(seg[i], Take(body[i], n), remaining[i] - written[i])
                d == seg[i].downloaded + Len(w)
            IN  /\ body' = [body EXCEPT ![i] = Drop(@, n)]
                /\ chan' = IF w = <<>> THEN chan ELSE on_progress(i, Len(w))
                /\ data' = [data EXCEPT ![i] = @ \o w]
                /\ written' = [written EXCEPT ![i] = @ + Len(w)]
                /\ IF w = <<>> \/ reached(seg[i], written[i] + Len(w), remaining[i])
                   THEN finish(i, d)
                   ELSE /\ seg' = [seg EXCEPT ![i].downloaded = d]
                        /\ UNCHANGED <<pc, result>>
    /\ UNCHANGED <<retries, remaining, req, status, sent, fails, scratch, output>>
    /\ UNCHANGED <<envv, stratv, progress_tx, dl_tx>>

\* lines 235-238: write_all fails
write_err(i) ==
    /\ pc[i] = "stream"
    /\ body[i] # <<>>
    /\ ~is_cancelled
    /\ Return(i, "Disk")
    /\ UNCHANGED <<seg, retries, remaining, written, req, body, status, sent, fails>>
    /\ UNCHANGED <<envv, chanv, fsv, stratv>>

\* mutant: the chunk error is counted before the token is polled
chunk_err_counts(i) ==
    /\ pc[i] = "stream"
    /\ transport_failure(i)
    /\ UNCHANGED <<remaining, written, req, body, status, sent>>
    /\ UNCHANGED <<envv, chanv, fsv, stratv>>

\* lines 205-209, 253-272: the stream yields a transport error
chunk_err(i) ==
    /\ pc[i] = "stream"
    /\ IF is_cancelled
       THEN /\ Return(i, "Cancelled")
            /\ UNCHANGED <<seg, retries, fails>>
       ELSE transport_failure(i)
    /\ UNCHANGED <<remaining, written, req, body, status, sent>>
    /\ UNCHANGED <<envv, chanv, fsv, stratv>>

\* lines 205, 262, 274-293: the body ends (stream.next() is None)
stream_end(i) ==
    /\ pc[i] = "stream"
    /\ body[i] = <<>>
    /\ finish(i, seg[i].downloaded)
    /\ UNCHANGED <<retries, remaining, written, req, body, status, sent, fails>>
    /\ UNCHANGED <<envv, chanv, fsv, stratv>>

\* lines 270, 303: the back-off sleep ends
wake(i) ==
    /\ pc[i] = "sleep"
    /\ pc' = [pc EXCEPT ![i] = "top"]
    /\ UNCHANGED <<seg, retries, remaining, written, req, body, status, result, sent, fails>>
    /\ UNCHANGED <<envv, chanv, fsv, stratv>>

download_segment(i) ==
    \/ loop_top(i)
    \/ send_err(i)
    \/ send_ok(i)
    \/ open_err(i)
    \/ \E n \in 1..MaxChunk : chunk_ok(i, n)
    \/ write_err(i)
    \/ chunk_err(i)
    \/ stream_end(i)
    \/ wake(i)

\* -------------------------------------------------------------- download
\* the sequences that list every element of S once
Orders(S) ==
    {s \in [1..Cardinality(S) -> S] :
        \A a, b \in 1..Cardinality(S) : a # b => s[a] # s[b]}

Launched == {order[k] : k \in 1..Len(order)}

\* mutant: every segment that is not Finished is downloaded
segments_to_download_unfinished ==
    {i \in 1..Len(segments) : segments[i].state # "Finished"}

\* lines 281-288
segments_to_download ==
    {i \in 1..Len(segments) : segments[i].state = "NotStarted"}

\* lines 269-270, 290-292: nothing to download; the snapshot of the sender
\* is dropped on return
download_noop ==
    /\ call = "idle"
    /\ segments_to_download = {}
    /\ last' = Returned("download", "Ok")
    /\ order' = <<>>
    /\ pc' = [i \in Ids |-> "idle"]
    /\ seg' = [i \in Ids |-> NoSegment]
    /\ retries' = [i \in Ids |-> 0]
    /\ remaining' = [i \in Ids |-> 0]
    /\ written' = [i \in Ids |-> 0]
    /\ req' = [i \in Ids |-> NoRequest]
    /\ body' = [i \in Ids |-> <<>>]
    /\ status' = [i \in Ids |-> 0]
    /\ result' = [i \in Ids |-> "none"]
    /\ sent' = [i \in Ids |-> 0]
    /\ fails' = [i \in Ids |-> 0]
    /\ dl_tx' = FALSE
    /\ UNCHANGED <<envv, fsv, planned, segments, cancelled, call, progress_tx, chan>>

\* lines 269-270, 298-336: one task per NotStarted segment, each with a
\* clone of the sender; `results` follows the iteration order of the
\* HashMap, which is any order
download_spawn ==
    /\ call = "idle"
    /\ segments_to_download # {}
    /\ call' = "download"
    /\ order' \in Orders(segments_to_download)
    /\ pc' = [i \in Ids |-> IF i \in segments_to_download THEN "top" ELSE "idle"]
    /\ seg' = [i \in Ids |-> IF i \in segments_to_download
                             THEN [segments[i] EXCEPT !.state = "Downloading"]
                             ELSE NoSegment]
    /\ retries' = [i \in Ids |-> 0]
    /\ remaining' = [i \in Ids |-> 0]
    /\ written' = [i \in Ids |-> 0]
    /\ req' = [i \in Ids |-> NoRequest]
    /\ body' = [i \in Ids |-> <<>>]
    /\ status' = [i \in Ids |-> 0]
    /\ result' = [i \in Ids |-> "none"]
    /\ sent' = [i \in Ids |-> 0]
    /\ fails' = [i \in Ids |-> 0]
    /\ dl_tx' = progress_tx
    /\ UNCHANGED <<envv, fsv, planned, segments, cancelled, last, progress_tx, chan>>

\* mutant: download() stops waiting at the first task that failed
all_joined_fail_fast ==
    \/ \A i \in Launched : result[i] # "none"
    \/ \E i \in Launched : result[i] \notin {"none", "Finished"}

\* lines 339-344: join_all has every result
all_joined == \A i \in Launched : result[i] # "none"

\* lines 347-371: the first error in the order of `results`
first_error ==
    LET errs == {k \in 1..Len(order) : result[order[k]] # "Finished"}
    IN  IF errs = {} THEN "Ok"
        ELSE result[order[CHOOSE k \in errs : \A j \in errs : k <= j]]

\* mutant: a failed range's entry records what the task had downloaded
reconciled_records ==
    [i \in 1..Len(segments) |->
        IF i \notin Launched THEN segments[i]
        ELSE IF result[i] = "Finished" THEN seg[i]
        ELSE [seg[i] EXCEPT !.state = "Failed"]]

\* lines 349-371: the range map after the results are written to it
reconciled ==
    [i \in 1..Len(segments) |->
        IF i \notin Launched THEN segments[i]
        ELSE IF result[i] = "Finished" THEN seg[i]
        ELSE [segments[i] EXCEPT !.state = "Failed"]]

\* lines 338-383: the results are written to the map, the first error is
\* signalled on the progress channel and returned
download_join ==
    /\ call = "download"
    /\ all_joined
    /\ segments' = reconciled
    /\ last' = Returned("download", first_error)
    /\ call' = "idle"
    /\ chan' = IF first_error # "Ok" /\ dl_tx
               THEN try_send(chan, ErrorText(first_error))
               ELSE chan
    /\ dl_tx' = FALSE
    /\ UNCHANGED <<envv, taskv, fsv, planned, cancelled, order, progress_tx>>

download == download_noop \/ download_spawn \/ download_join

\* ----------------------------------------------------------- postprocess
\* mutant: the scratch files are copied in the iteration order of the map
unsorted(vals) == vals

\* lines 416-419: `sorted.sort_by_key(|s| s.offset)`, a stable sort of the
\* ids `vals` that the iteration of the map yielded
RECURSIVE sort_by_offset(_)
sort_by_offset(vals) ==
    IF vals = <<>> THEN <<>>
    ELSE LET m == CHOOSE a \in 1..Len(vals) : \A b \in 1..Len(vals) :
                      \/ segments[vals[a]].offset < segments[vals[b]].offset
                      \/ /\ segments[vals[a]].offset = segments[vals[b]].offset
                         /\ a <= b
         IN  <<vals[m]>> \o sort_by_offset(Take(vals, m - 1) \o Drop(vals, m))

\* lines 449-463: the scratch files copied to the output, up to the first
\* one that is missing
RECURSIVE assemble(_)
assemble(ids) ==
    IF ids = <<>> \/ Head(ids) \notin scratch THEN <<>>
    ELSE data[Head(ids)] \o assemble(Tail(ids))

\* mutant: only the ranges that failed are refused
none_failed == \A i \in 1..Len(segments) : segments[i].state # "Failed"

\* lines 405-413: no segment of the map is in another state than Finished
all_finished == \A i \in 1..Len(segments) : segments[i].state = "Finished"

\* lines 405-413
postprocess_unfinished ==
    /\ call = "idle"
    /\ ~all_finished
    /\ last' = Returned("postprocess", "SegmentFailed")
    /\ UNCHANGED <<envv, chanv, taskv, fsv, planned, segments, cancelled, call, order>>

\* lines 415-487
postprocess_assemble ==
    /\ call = "idle"
    /\ all_finished
    /\ \E vals \in Orders(1..Len(segments)) :
         LET segment_ids == sort_by_offset(vals)
             ok == \A i \in 1..Len(segments) : i \in scratch
         IN  /\ output' = [exists |-> TRUE, data |-> assemble(segment_ids)]
             /\ scratch' = IF ok THEN {} ELSE scratch
             /\ last' = Returned("postprocess", IF ok THEN "Ok" ELSE "Disk")
    /\ UNCHANGED <<envv, chanv, taskv, data, planned, segments, cancelled, call, order>>

\* mutant: the scratch files are removed when the assembly fails
postprocess_io_err_cleans ==
    /\ call = "idle"
    /\ all_finished
    /\ scratch' = {}
    /\ last' = Returned("postprocess", "Disk")
    /\ UNCHANGED <<envv, chanv, taskv, output, data, planned, segments, cancelled,
                   call, order>>

\* lines 449-465, 485: File::create fails, or the copy of the k+1st scratch
\* file or the final flush does, after k files were copied
postprocess_io_err ==
    /\ call = "idle"
    /\ all_finished
    /\ \/ UNCHANGED output
       \/ \E vals \in Orders(1..Len(segments)), k \in 0..Len(segments) :
            output' = [exists |-> TRUE,
                       data |-> assemble(Take(sort_by_offset(vals), k))]
    /\ last' = Returned("postprocess", "Disk")
    /\ UNCHANGED <<envv, chanv, taskv, scratch, data, planned, segments, cancelled,
                   call, order>>

postprocess == postprocess_unfinished \/ postprocess_assemble \/ postprocess_io_err

\* ----------------------------------------------------- ProgressNotifier
\* one more callback of kind k in an observer's record
Callback(log, k) ==
    [log EXCEPT ![k] = @ + 1,
                !.late = @ \/ log.on_complete + log.on_error > 0]

\* `for observer in &self.observers { observer.k(..).await }`
fan_out(k) ==
    [o \in Observers |-> IF o \in observers THEN Callback(observed[o], k)
                         ELSE observed[o]]

\* every Sender of the channel is dropped: the strategy's, download()'s
\* snapshot and the tasks' clones of it
closed == ~progress_tx /\ ~dl_tx

\* mutant: the event's bytes replace the bytes counted so far
handle_event_overwrites(agg, ev) ==
    LET id == ev.segment_id
    IN  [segments |-> [i \in DOMAIN agg.segments \cup {id} |->
                          IF i = id
                          THEN [bytes_downloaded |-> ev.bytes_delta,
                                total_bytes |-> IF ev.total_bytes = UNKNOWN
                                                THEN 0 ELSE ev.total_bytes]
                          ELSE agg.segments[i]],
         segment_order |-> IF id \in DOMAIN agg.segments
                           THEN agg.segment_order
                           ELSE Append(agg.segment_order, id)]

\* notifier.rs:81-122: a segment is tracked from its first event on
\* (total_bytes.unwrap_or(0)); the event's bytes are added to its
\* bytes_downloaded, and its total_bytes is set when it was 0 and the event
\* has one
handle_event(agg, ev) ==
    LET id == ev.segment_id
        seen == id \in DOMAIN agg.segments
        old == IF seen THEN agg.segments[id]
               ELSE [bytes_downloaded |-> 0,
                     total_bytes |-> IF ev.total_bytes = UNKNOWN THEN 0
                                     ELSE ev.total_bytes]
        new == [bytes_downloaded |-> old.bytes_downloaded + ev.bytes_delta,
                total_bytes |-> IF old.total_bytes = 0 /\ ev.total_bytes # UNKNOWN
                                THEN ev.total_bytes ELSE old.total_bytes]
    IN  [segments |-> [i \in DOMAIN agg.segments \cup {id} |->
                          IF i = id THEN new ELSE agg.segments[i]],
         segment_order |-> IF seen THEN agg.segment_order
                           ELSE Append(agg.segment_order, id)]

\* mutant: after on_error the loop goes on receiving
run_recv_goes_on ==
    /\ notifier = "running"
    /\ chan # <<>>
    /\ chan' = Tail(chan)
    /\ observed' = fan_out(IF Head(chan).ok THEN "on_progress" ELSE "on_error")
    /\ aggregate' = IF Head(chan).ok THEN handle_event(aggregate, Head(chan).ev)
                    ELSE aggregate
    /\ UNCHANGED notifier
    /\ UNCHANGED <<facade, phases, ret, observers, progress_tx, dl_tx>>
    /\ UNCHANGED <<envv, taskv, fsv, stratv, planv>>

\* notifier.rs:60-74: recv() yields a message; an event goes to on_progress,
\* an error to on_error and run returns, dropping the receiver and what is
\* still queued
run_recv ==
    /\ notifier = "running"
    /\ chan # <<>>
    /\ IF Head(chan).ok
       THEN /\ chan' = Tail(chan)
            /\ aggregate' = handle_event(aggregate, Head(chan).ev)
            /\ observed' = fan_out("on_progress")
            /\ UNCHANGED notifier
       ELSE /\ chan' = <<>>
            /\ observed' = fan_out("on_error")
            /\ notifier' = "done"
            /\ UNCHANGED aggregate
    /\ UNCHANGED <<facade, phases, ret, observers, progress_tx, dl_tx>>
    /\ UNCHANGED <<envv, taskv, fsv, stratv, planv>>

\* notifier.rs:60, 76-77, 168-185: recv() yields None once the channel is
\* empty and every sender is dropped; finish calls on_complete
run_closed ==
    /\ notifier = "running"
    /\ chan = <<>>
    /\ closed
    /\ observed' = fan_out("on_complete")
    /\ notifier' = "done"
    /\ UNCHANGED <<facade, phases, ret, aggregate, observers, chanv>>
    /\ UNCHANGED <<envv, taskv, fsv, stratv, planv>>

run == run_recv \/ run_closed

\* `self.segments.values().map(|s| s.field).sum()` over the entries S
RECURSIVE values_sum(_, _, _)
values_sum(m, S, field) ==
    IF S = {} THEN 0
    ELSE LET i == CHOOSE i \in S : TRUE
         IN  m[i][field] + values_sum(m, S \ {i}, field)

\* u64::saturating_sub
saturating_sub(a, b) == IF a > b THEN a - b ELSE 0

\* the combined speeds a snapshot can be built with: the sum of the
\* ranges' moving averages, which depend on the instants of the events
Speeds == 0..MaxSpeed

\* mutant: the ranges are listed by id
build_snapshot_by_id(agg, combined_speed) ==
    LET total_bytes == values_sum(agg.segments, DOMAIN agg.segments, "total_bytes")
        total_downloaded ==
            values_sum(agg.segments, DOMAIN agg.segments, "bytes_downloaded")
        remaining_ == saturating_sub(total_bytes, total_downloaded)
        ids == SelectSeq([k \in 1..Connections |-> k],
                         LAMBDA id : id \in DOMAIN agg.segments)
    IN  [segments |->
             [k \in 1..Len(ids) |->
                 [segment_id |-> ids[k],
                  bytes_downloaded |-> agg.segments[ids[k]].bytes_downloaded,
                  total_bytes |-> agg.segments[ids[k]].total_bytes]],
         total_bytes_downloaded |-> total_downloaded,
         total_bytes |-> total_bytes,
         eta_secs |-> IF combined_speed > 0
                      THEN [num |-> remaining_, den |-> combined_speed]
                      ELSE Zero,
         done |-> FALSE]

\* notifier.rs:125-165: the totals are summed over the map, the ranges
\* listed in segment_order; eta is remaining / speed, or 0.0 at speed 0
\* (the speeds themselves are left out of the snapshot)
build_snapshot(agg, combined_speed) ==
    LET total_bytes == values_sum(agg.segments, DOMAIN agg.segments, "total_bytes")
        total_downloaded ==
            values_sum(agg.segments, DOMAIN agg.segments, "bytes_downloaded")
        remaining_ == saturating_sub(total_bytes, total_downloaded)
        ids == SelectSeq(agg.segment_order,
                         LAMBDA id : id \in DOMAIN agg.segments)
    IN  [segments |->
             [k \in 1..Len(ids) |->
                 [segment_id |-> ids[k],
                  bytes_downloaded |-> agg.segments[ids[k]].bytes_downloaded,
                  total_bytes |-> agg.segments[ids[k]].total_bytes]],
         total_bytes_downloaded |-> total_downloaded,
         total_bytes |-> total_bytes,
         eta_secs |-> IF combined_speed > 0
                      THEN [num |-> remaining_, den |-> combined_speed]
                      ELSE Zero,
         done |-> FALSE]

\* mutant: the final snapshot keeps the eta of build_snapshot
finish_keeps_eta(agg, combined_speed) ==
    [build_snapshot(agg, combined_speed) EXCEPT !.done = TRUE]

\* notifier.rs:168-185, the snapshot of finish(): done, eta 0.0
ProgressNotifier_finish(agg, combined_speed) ==
    [build_snapshot(agg, combined_speed) EXCEPT !.done = TRUE,
                                                !.eta_secs = Zero]

\* notifier.rs:60-74 with the snapshot handle_event returns: an event is
\* aggregated and its snapshot passed to on_progress
run_on_message ==
    /\ run_recv
    /\ IF Head(chan).ok
       THEN /\ received' = Append(received, Head(chan).ev)
            /\ \E speed \in Speeds :
                  delivered' = [callback |-> "on_progress",
                                snapshot |-> build_snapshot(aggregate', speed)]
       ELSE UNCHANGED histv

\* notifier.rs:76-77, 168-185: the channel is closed and drained; the
\* final snapshot is passed to on_complete
run_on_close ==
    /\ run_closed
    /\ \E speed \in Speeds :
          delivered' = [callback |-> "on_complete",
                        snapshot |-> ProgressNotifier_finish(aggregate, speed)]
    /\ UNCHANGED received

\* ------------------------------------------------------- HttpDownloader
\* http_downloader.rs:35-47: the channel is created, its sender given to
\* the strategy and the notifier spawned with the receiver
download_begin ==
    /\ facade = "new"
    /\ chan' = <<>>
    /\ progress_tx' = TRUE
    /\ notifier' = "running"
    /\ facade' = "preprocess"
    /\ UNCHANGED <<phases, ret, aggregate, observers, observed, dl_tx>>
    /\ UNCHANGED <<envv, taskv, fsv, stratv, planv>>

\* mutant: the next phase runs whatever the phase returned
question_mark_ignored(next_phase) ==
    /\ facade' = next_phase
    /\ ret' = IF next_phase = "clear" THEN last'.res ELSE ret

\* the `?` after a phase (http_downloader.rs:50-55): an error ends the
\* block with that error, Ok goes on to the next phase; the value of the
\* last phase is the value of the block
question_mark(next_phase) ==
    IF last'.res = "Ok" /\ next_phase # "clear"
    THEN /\ facade' = next_phase
         /\ UNCHANGED ret
    ELSE /\ facade' = "clear"
         /\ ret' = last'.res

\* http_downloader.rs:51
phase_preprocess ==
    /\ facade = "preprocess"
    /\ preprocess
    /\ phases' = Append(phases, [op |-> "preprocess", res |-> last'.res])
    /\ question_mark("download")
    /\ UNCHANGED <<notifier, aggregate, observers, observed, planv>>

\* http_downloader.rs:52: download() is called; it returns at once when
\* there is nothing to download and awaits its tasks otherwise
phase_download ==
    /\ facade = "download"
    /\ download_noop \/ download_spawn
    /\ phases' = Append(phases, [op |-> "download",
                                 res |-> IF call' = "download" THEN "pending"
                                         ELSE last'.res])
    /\ IF call' = "download"
       THEN /\ facade' = "join_all"
            /\ UNCHANGED ret
       ELSE question_mark("postprocess")
    /\ UNCHANGED <<notifier, aggregate, observers, observed, planv>>

\* http_downloader.rs:52: download() returns
phase_download_returns ==
    /\ facade = "join_all"
    /\ download_join
    /\ question_mark("postprocess")
    /\ phases' = [phases EXCEPT ![Len(phases)].res = last'.res]
    /\ UNCHANGED <<notifier, aggregate, observers, observed, planv>>

\* http_downloader.rs:53
phase_postprocess ==
    /\ facade = "postprocess"
    /\ postprocess
    /\ phases' = Append(phases, [op |-> "postprocess", res |-> last'.res])
    /\ question_mark("clear")
    /\ UNCHANGED <<notifier, aggregate, observers, observed, planv>>

\* http_downloader.rs:59
clear_progress_tx ==
    /\ facade = "clear"
    /\ progress_tx' = FALSE
    /\ facade' = "await_notifier"
    /\ UNCHANGED <<phases, ret, notifier, aggregate, observers, observed,
                   dl_tx, chan>>
    /\ UNCHANGED <<envv, taskv, fsv, stratv, planv>>

\* mutant: download() returns without awaiting the notifier
notifier_handle_detached == TRUE

\* the JoinHandle of the notifier task is ready
notifier_handle_ready == notifier = "done"

\* http_downloader.rs:62-64: the notifier task has ended; download()
\* returns `result`
download_return ==
    /\ facade = "await_notifier"
    /\ notifier_handle_ready
    /\ facade' = "returned"
    /\ UNCHANGED <<phases, ret, notifier, aggregate, observers, observed, chanv>>
    /\ UNCHANGED <<envv, taskv, fsv, stratv, planv>>

HttpDownloader_download ==
    \/ download_begin
    \/ phase_preprocess
    \/ phase_download
    \/ phase_download_returns
    \/ phase_postprocess
    \/ clear_progress_tx
    \/ download_return

\* ------------------------------------------------------------------ spec
Next ==
    \/ preprocess /\ UNCHANGED <<facv, planv, histv, srvv>>
    \/ download /\ UNCHANGED <<facv, planv, histv, srvv>>
    \/ \E i \in Ids : download_segment(i) /\ UNCHANGED <<facv, planv, histv, srvv>>
    \/ postprocess /\ UNCHANGED <<facv, planv, histv, srvv>>
    \/ stop /\ UNCHANGED <<facv, planv, histv, srvv>>
    \/ pause /\ UNCHANGED <<facv, planv, histv, srvv>>

Spec == Init /\ [][Next]_vars
\* The liveness specification: the origins that honour Range or do not
\* support it; the scheduler runs every spawned task, every pending request
\* yields a response, a chunk, the end of the body or an error, every sleep
\* ends, and download() resumes once join_all has every result.
FairInit == Init /\ server \in {"range", "norange"}

FairSpec ==
    /\ FairInit
    /\ [][Next]_vars
    /\ \A i \in Ids : WF_vars(download_segment(i) /\ UNCHANGED <<facv, planv, histv, srvv>>)
    /\ WF_vars(download_join /\ UNCHANGED <<facv, planv, histv, srvv>>)

\* ---------------------------------------------------------- facade spec
\* HttpDownloader::new followed by add_observer for every observer
\* (http_downloader.rs:16-26, notifier.rs:41-53)
HttpDownloader_new ==
    /\ facade = "new"
    /\ phases = <<>>
    /\ ret = "none"
    /\ notifier = "none"
    /\ aggregate = ProgressNotifier_new
    /\ observers = Observers
    /\ observed = [o \in Observers |-> NoCallbacks]

\* the origins of the facade runs: one that honours Range, one that does
\* not support it, one that refuses every connection
FacadeInit ==
    /\ StrategyInit /\ server \in {"range", "norange", "refuse"}
    /\ HttpDownloader_new /\ NoPlanner /\ NothingDelivered /\ NoServer

\* one HttpDownloader::download() call on a fresh strategy; stop() and
\* pause() may come from another task at any moment
FacadeNext ==
    \/ HttpDownloader_download /\ UNCHANGED <<histv, srvv>>
    \/ \E i \in Ids : download_segment(i) /\ UNCHANGED <<facv, planv, histv, srvv>>
    \/ run /\ UNCHANGED <<histv, srvv>>
    \/ stop /\ UNCHANGED <<facv, planv, histv, srvv>>
    \/ pause /\ UNCHANGED <<facv, planv, histv, srvv>>

FacadeSpec == FacadeInit /\ [][FacadeNext]_vars

\* The runtime runs download(), every spawned range task and the notifier
\* task; requests, sleeps and file operations end.
\* the liveness runs: resources of a single range
FacadeFairInit == FacadeInit /\ fileSize < 2 * MIN_SEGMENT_SIZE

FacadeFairSpec ==
    /\ FacadeFairInit
    /\ [][FacadeNext]_vars
    /\ WF_vars(HttpDownloader_download /\ UNCHANGED <<histv, srvv>>)
    /\ \A i \in Ids : WF_vars(download_segment(i) /\ UNCHANGED <<facv, planv, histv, srvv>>)
    /\ WF_vars(run /\ UNCHANGED <<histv, srvv>>)

\* --------------------------------------------------------- planner spec
\* create_segments is called (lines 107-119)
PlannerInit ==
    /\ StrategyInit /\ fileSize = 1 /\ server = "range"
    /\ NoFacade /\ NothingDelivered /\ NoServer
    /\ plan_size \in 1..MaxPlanSize
    /\ plan_connections \in 0..MaxPlanConnections
    /\ plan = <<Segment_new(1, 0, plan_size)>>
    /\ planning = TRUE

\* lines 122-161: one iteration of the loop
create_segments_split ==
    /\ planning
    /\ may_split(plan, plan_connections)
    /\ plan' = split_largest(plan)
    /\ UNCHANGED <<plan_size, plan_connections, planning>>
    /\ UNCHANGED <<envv, taskv, fsv, stratv, chanv, facv>>

\* lines 122, 140, 178: the loop ends and `segments` is returned
create_segments_return ==
    /\ planning
    /\ ~may_split(plan, plan_connections)
    /\ planning' = FALSE
    /\ UNCHANGED <<plan_size, plan_connections, plan>>
    /\ UNCHANGED <<envv, taskv, fsv, stratv, chanv, facv>>

PlannerNext ==
    \/ create_segments_split /\ UNCHANGED <<histv, srvv>>
    \/ create_segments_return /\ UNCHANGED <<histv, srvv>>

PlannerSpec == PlannerInit /\ [][PlannerNext]_vars

\* ----------------------------------------------------------- fetch spec
\* download_segment called by a caller of its own, as in
\* rdm_core/tests/segment_grabber_tests.rs: the caller passes a segment, a
\* token and the scratch directory, and may cancel the token (stop).
FetchInit == Init /\ server = "range"

\* a call of download_segment by task i with segment s and a live token
fetch_call(i, s) ==
    /\ seg' = [seg EXCEPT ![i] = [s EXCEPT !.state = "Downloading"]]
    /\ pc' = [pc EXCEPT ![i] = "top"]
    /\ retries' = [retries EXCEPT ![i] = 0]
    /\ remaining' = [remaining EXCEPT ![i] = 0]
    /\ written' = [written EXCEPT ![i] = 0]
    /\ req' = [req EXCEPT ![i] = NoRequest]
    /\ body' = [body EXCEPT ![i] = <<>>]
    /\ status' = [status EXCEPT ![i] = 0]
    /\ result' = [result EXCEPT ![i] = "none"]
    /\ sent' = [sent EXCEPT ![i] = 0]
    /\ fails' = [fails EXCEPT ![i] = 0]
    /\ UNCHANGED <<envv, chanv, fsv, planned, segments, call, order, last>>

\* the first fetch of a range [offset, offset + length) of the resource
\* (segment_grabber.rs:110-122, Segment::new); one range is fetched in a
\* behaviour
fetch(i) ==
    /\ \A j \in Ids : pc[j] = "idle"
    /\ ~cancelled
    /\ \E offset \in 0..(fileSize - 1) : \E length \in 1..(fileSize - offset) :
          fetch_call(i, Segment_new(i, offset, length))
    /\ UNCHANGED cancelled

\* the range of a cancelled fetch is fetched again with a new token: the
\* caller passes the range as new (downloaded 0) or with the size of its
\* scratch file as downloaded
fetch_again(i) ==
    /\ pc[i] = "done"
    /\ result[i] = "Cancelled"
    /\ \E d \in {0, IF i \in scratch THEN Len(data[i]) ELSE 0} :
          fetch_call(i, [Segment_new(i, seg[i].offset, seg[i].length)
                            EXCEPT !.downloaded = d])
    /\ cancelled' = FALSE

FetchNext ==
    \/ \E i \in Ids : fetch(i) /\ UNCHANGED <<facv, planv, histv, srvv>>
    \/ \E i \in Ids : download_segment(i) /\ UNCHANGED <<facv, planv, histv, srvv>>
    \/ stop /\ UNCHANGED <<facv, planv, histv, srvv>>
    \/ \E i \in Ids : fetch_again(i) /\ UNCHANGED <<facv, planv, histv, srvv>>

FetchSpec == FetchInit /\ [][FetchNext]_vars

\* --------------------------------------------------------- replace spec
\* preprocess may be called again whenever no other call is in progress, and
\* its store is run step by step
ReplaceInit == Init /\ server \in {"range", "norange", "nosize"}

ReplaceNext ==
    \/ preprocess_store /\ UNCHANGED <<facv, planv, histv, srvv>>
    \/ download /\ UNCHANGED <<facv, planv, histv, srvv>>
    \/ \E i \in Ids : download_segment(i) /\ UNCHANGED <<facv, planv, histv, srvv>>
    \/ postprocess_unfinished /\ UNCHANGED <<facv, planv, histv, srvv>>

ReplaceSpec == ReplaceInit /\ [][ReplaceNext]_vars

\* -------------------------------------------------------- notifier spec
\* ProgressNotifier::run on a channel of its own: the holder of the Sender
\* sends any events and errors and drops the Sender at any moment.
NotifierInit ==
    /\ StrategyInit /\ fileSize = 1 /\ server = "range"
    /\ HttpDownloader_new /\ NoPlanner /\ NothingDelivered /\ NoServer

\* the messages a sender can send: events of any range, of the smallest
\* or the largest chunk, with or without the size of the range, and an
\* error
Messages ==
    {ProgressEvent(i, n, t) : i \in Ids, n \in {1, MaxChunk},
                              t \in {UNKNOWN, MaxFileSize}}
        \cup {ErrorText("MaxRetryExceeded")}

\* http_downloader.rs:35-47: the channel is created and run spawned with
\* its receiver
channel_open ==
    /\ notifier = "none"
    /\ notifier' = "running"
    /\ dl_tx' = TRUE
    /\ chan' = <<>>
    /\ UNCHANGED <<facade, phases, ret, aggregate, observers, observed,
                   progress_tx>>
    /\ UNCHANGED <<envv, taskv, fsv, stratv, planv, histv, srvv>>

\* strategy lines 322-329, 375-379: a message is sent with try_send
sender_send(msg) ==
    /\ dl_tx
    /\ Len(received) + Len(chan) < MaxEvents
    /\ chan' = try_send(chan, msg)
    /\ UNCHANGED <<progress_tx, dl_tx>>
    /\ UNCHANGED <<envv, taskv, fsv, stratv, facv, planv, histv, srvv>>

\* the Sender is dropped
sender_drop ==
    /\ dl_tx
    /\ dl_tx' = FALSE
    /\ UNCHANGED <<progress_tx, chan>>
    /\ UNCHANGED <<envv, taskv, fsv, stratv, facv, planv, histv, srvv>>

NotifierNext ==
    \/ channel_open
    \/ \E msg \in Messages : sender_send(msg)
    \/ sender_drop
    \/ run_on_message /\ UNCHANGED srvv
    \/ run_on_close /\ UNCHANGED srvv

NotifierSpec == NotifierInit /\ [][NotifierNext]_vars

\* ---------------------------------------------------------- server spec
\* rdm_server: one download dispatched through spawn_download_to_path and
\* one POST /cancel/:id for it.  The tasks run on the multi-threaded
\* runtime in any order.
\* server.rs:428-487: spawn_download_to_path has returned; the downloader
\* with its observer is in the entry `dl`, which the registering task
\* owns, and both tasks are spawned
ServerInit ==
    /\ StrategyInit /\ fileSize = 1 /\ server \in {"range", "refuse"}
    /\ HttpDownloader_new /\ NoPlanner /\ NothingDelivered
    /\ downloads = "absent"
    /\ registrar = "spawned"
    /\ dl_task = "spawned"
    /\ canceller = "idle"

\* cancel_handler holds the write guard of `downloads` from line 594 to
\* its return
downloads_write_held == canceller = "locked"

\* the download task holds the downloader's mutex for the whole statement
\* `downloader_arc.lock().await.download().await` (line 473)
downloader_locked == dl_task = "downloading"

\* server.rs:448-450: the registering task inserts the entry
register_insert ==
    /\ registrar = "spawned"
    /\ ~downloads_write_held
    /\ downloads' = "Running"
    /\ registrar' = "done"
    /\ UNCHANGED <<dl_task, canceller>>
    /\ UNCHANGED <<envv, taskv, fsv, stratv, chanv, facv, planv, histv>>

\* server.rs:459-471: the download task looks its entry up; without one
\* it logs an error and returns
task_lookup ==
    /\ dl_task = "spawned"
    /\ ~downloads_write_held
    /\ dl_task' = IF downloads = "absent" THEN "missing" ELSE "found"
    /\ UNCHANGED <<downloads, registrar, canceller>>
    /\ UNCHANGED <<envv, taskv, fsv, stratv, chanv, facv, planv, histv>>

\* server.rs:473: the mutex is acquired; download() is called
task_lock ==
    /\ dl_task = "found"
    /\ dl_task' = "downloading"
    /\ UNCHANGED <<downloads, registrar, canceller>>
    /\ UNCHANGED <<envv, taskv, fsv, stratv, chanv, facv, planv, histv>>

\* server.rs:473: a step of HttpDownloader::download() under the mutex
task_download ==
    /\ downloader_locked
    /\ HttpDownloader_download
    /\ UNCHANGED <<histv, srvv>>

\* server.rs:473-483: download() has returned; the guard is dropped at the
\* end of the statement
task_unlock ==
    /\ downloader_locked
    /\ facade = "returned"
    /\ dl_task' = IF ret = "Ok" THEN "Complete" ELSE "Failed"
    /\ UNCHANGED <<downloads, registrar, canceller>>
    /\ UNCHANGED <<envv, taskv, fsv, stratv, chanv, facv, planv, histv>>

\* server.rs:484-486: the new status is written to the entry
task_set_status ==
    /\ dl_task \in {"Complete", "Failed"}
    /\ ~downloads_write_held
    /\ downloads' = IF downloads = "absent" THEN downloads ELSE dl_task
    /\ dl_task' = "done"
    /\ UNCHANGED <<registrar, canceller>>
    /\ UNCHANGED <<envv, taskv, fsv, stratv, chanv, facv, planv, histv>>

\* server.rs:594-595, 607-609: cancel_handler takes the write guard of the
\* map and looks the entry up; without one it answers not_found
cancel_lookup ==
    /\ canceller = "idle"
    /\ canceller' = IF downloads = "absent" THEN "not_found" ELSE "locked"
    /\ UNCHANGED <<downloads, registrar, dl_task>>
    /\ UNCHANGED <<envv, taskv, fsv, stratv, chanv, facv, planv, histv>>

\* server.rs:596-601: `dl.downloader.lock().await.stop().await`: once the
\* mutex is free, stop() is called, the entry marked Cancelled and the
\* guards are released
cancel_stop ==
    /\ canceller = "locked"
    /\ ~downloader_locked
    /\ stop
    /\ downloads' = "Cancelled"
    /\ canceller' = "cancelled"
    /\ UNCHANGED <<registrar, dl_task>>
    /\ UNCHANGED <<facv, planv, histv>>

cancel_handler == cancel_lookup \/ cancel_stop

ServerNext ==
    \/ register_insert
    \/ task_lookup
    \/ task_lock
    \/ task_download
    \/ task_unlock
    \/ task_set_status
    \/ cancel_handler
    \/ \E i \in Ids : download_segment(i) /\ UNCHANGED <<facv, planv, histv, srvv>>
    \/ run /\ UNCHANGED <<histv, srvv>>

ServerSpec == ServerInit /\ [][ServerNext]_vars

\* ================================================================ claims
Known(s) == s.length > 0
Errors == {"MaxRetryExceeded", "Cancelled", "Disk"}
DownloadReturned == call = "idle" /\ last.op = "download"

C2_Lies200OutputEqualsOrigin ==
    (/\ server = "lies200" /\ planned /\ Len(segments) > 1
     /\ call = "idle" /\ last = Returned("postprocess", "Ok"))
        => output.data = Origin

\* C3: when a download() that launched range tasks has returned Ok, every
\* range of the map is Finished and, when its length is known,
\* downloaded = length.
C3_OkMeansComplete ==
    (DownloadReturned /\ last.res = "Ok" /\ Launched # {}) =>
        \A k \in 1..Len(segments) :
            /\ segments[k].state = "Finished"
            /\ Known(segments[k]) => segments[k].downloaded = segments[k].length

\* C4: with an origin that honours Range, a fetcher that returns Finished
\* leaves a scratch file holding exactly the resource's bytes
\* [offset, offset + length), whatever transport errors it retried, and after
\* preprocess and download a successful postprocess leaves an output equal
\* to the resource.
C4_RangeOriginExact ==
    server = "range" =>
        /\ \A i \in Ids : (result[i] = "Finished" /\ i \in scratch) =>
              /\ Known(seg[i])
              /\ data[i] = Slice(seg[i].offset, seg[i].offset + seg[i].length - 1)
        /\ (planned /\ call = "idle" /\ last = Returned("postprocess", "Ok")) =>
              /\ output.exists
              /\ output.data = Origin

\* C4 witness: a two-range job assembled after one range retried mid-body
C4_Witness ==
    /\ server = "range" /\ planned /\ Len(segments) = 2
    /\ last = Returned("postprocess", "Ok")
    /\ output.data = Origin
    /\ \E i \in Ids : retries[i] > 0 /\ result[i] = "Finished" /\ sent[i] > 1
                      /\ req[i].start > seg[i].offset

\* C5: the retry counter equals the number of transport failures of the
\* call, the call sends at most MAX_RETRIES requests, and it returns
\* MaxRetryExceeded (with its segment Failed) exactly when the counter is
\* MAX_RETRIES.
C5_RetryBudget ==
    \A i \in Ids :
        /\ retries[i] = fails[i]
        /\ retries[i] <= MAX_RETRIES
        /\ sent[i] <= MAX_RETRIES
        /\ fails[i] <= sent[i]
        /\ result[i] = "MaxRetryExceeded" <=> retries[i] = MAX_RETRIES
        /\ result[i] = "MaxRetryExceeded" => seg[i].state = "Failed"
        /\ seg[i].state = "Failed" => result[i] = "MaxRetryExceeded"

\* C5 witness: the budget ran out although chunks were written in between
C5_Witness ==
    \E i \in Ids :
        /\ result[i] = "MaxRetryExceeded" /\ sent[i] = MAX_RETRIES
        /\ fails[i] = MAX_RETRIES /\ seg[i].downloaded > 0

\* C6: once the token is cancelled, a fetcher that has not returned yet
\* returns neither a Finished range nor MaxRetryExceeded.
C6_AfterTripOnlyCancelled ==
    [][\A i \in Ids :
          (cancelled /\ pc[i] \in {"top", "send", "stream", "sleep"}) =>
              result'[i] \notin {"Finished", "MaxRetryExceeded"}]_vars

\* C7: after the token is cancelled while download() is waiting for its
\* tasks, download() eventually returns.
C7_StopTerminates == (cancelled /\ call = "download") ~> (call = "idle")

\* C7 witness: download() returned Cancelled for a task that had already
\* sent a request when the token was cancelled
C7_Witness ==
    /\ cancelled /\ DownloadReturned /\ last.res = "Cancelled"
    /\ \A i \in Launched : pc[i] = "done"
    /\ \E i \in Launched : result[i] = "Cancelled" /\ sent[i] > 0

\* C8: a fetcher that polls the cancelled token (at the head of the loop or
\* on a stream event, chunk or error) returns Cancelled, and while the token
\* is cancelled no step from a polling point increments the retry counter,
\* writes to the scratch file or returns MaxRetryExceeded.
C8_CancelNotCoerced ==
    [][\A i \in Ids : cancelled =>
          /\ pc[i] \in {"top", "stream"} =>
                /\ retries'[i] = retries[i]
                /\ data'[i] = data[i]
                /\ result'[i] # "MaxRetryExceeded"
          /\ (pc[i] = "top" /\ pc'[i] # "top") => result'[i] = "Cancelled"
          /\ (chunk_err(i) \/ \E n \in 1..MaxChunk : chunk_ok(i, n)) =>
                result'[i] = "Cancelled"]_vars

\* C8 witness: Cancelled returned mid-body with the counter one short of
\* the budget
C8_Witness ==
    \E i \in Ids :
        /\ result[i] = "Cancelled" /\ retries[i] = MAX_RETRIES - 1
        /\ status[i] # 0 /\ seg[i].downloaded > 0

\* C9: the error download() returns is the first one, in the order of the
\* results, that is not Cancelled; it is Cancelled only when no range ended
\* with another error.
C9_FirstNonCancelled ==
    DownloadReturned =>
        LET other == {k \in 1..Len(order) :
                        result[order[k]] \notin {"Finished", "Cancelled"}}
        IN  IF other # {}
            THEN last.res = result[order[CHOOSE k \in other : \A j \in other : k <= j]]
            ELSE (last.res = "Cancelled") <=>
                    (\E i \in Launched : result[i] = "Cancelled")

\* C10: only stop() and pause() change the token; while download() waits,
\* no step of a task changes the range map; and download() returns only when
\* every launched task has returned, with every outcome in the range map.
C10_NoPeerCancel ==
    [][/\ cancelled' # cancelled => (stop \/ pause)
       /\ call = "download" =>
            \/ segments' = segments /\ call' = "download"
            \/ /\ call' = "idle"
               /\ \A i \in Launched :
                    /\ pc[i] = "done" /\ result[i] # "none"
                    /\ result[i] = "Finished" => segments'[i] = seg[i]
                    /\ result[i] \in Errors =>
                          segments'[i] = [segments[i] EXCEPT !.state = "Failed"]
               /\ \A k \in (1..Len(segments)) \ Launched :
                    segments'[k] = segments[k]]_vars

\* C10 witness: download() returned after one range gave up and its peer
\* finished, and the token was never cancelled
C10_Witness ==
    /\ ~cancelled /\ DownloadReturned /\ last.res = "MaxRetryExceeded"
    /\ \E i, j \in Launched :
        /\ result[i] = "MaxRetryExceeded" /\ segments[i].state = "Failed"
        /\ result[j] = "Finished" /\ segments[j].state = "Finished"
        /\ segments[j].downloaded = segments[j].length

\* -------------------------------------------------------- facade claims
FacadeReturned == facade = "returned"
Terminal(o) == observed[o].on_complete + observed[o].on_error
PhaseOrder == <<"preprocess", "download", "postprocess">>
Invoked(op) == \E k \in 1..Len(phases) : phases[k].op = op

\* C11: when HttpDownloader::download() has returned, whatever the outcome,
\* the notifier task has ended and no sender of the channel is left; and
\* once the phases are over the call does return: it never waits for the
\* notifier for ever.
C11_AggregatorEndsBeforeReturn ==
    /\ [](FacadeReturned => notifier = "done" /\ closed)
    /\ (facade \in {"clear", "await_notifier"}) ~> FacadeReturned

\* download() returned an error and the notifier ended on the error message
C11_Witness ==
    /\ FacadeReturned /\ ret = "MaxRetryExceeded"
    /\ \A o \in observers : observed[o].on_error = 1

\* C12: in a download() run no observer gets more than one terminal
\* callback (on_complete or on_error, never both) nor any callback after
\* it, and when download() has returned every observer has got exactly one.
C12_OneTerminalCallback ==
    \A o \in observers :
        /\ Terminal(o) <= 1
        /\ ~observed[o].late
        /\ FacadeReturned => Terminal(o) = 1

\* download() returned after on_error, which came after some on_progress
C12_Witness ==
    /\ FacadeReturned
    /\ \A o \in observers :
          observed[o].on_error = 1 /\ observed[o].on_progress > 0

\* C13: when download() returns an error every observer has received
\* on_error and not on_complete; on_complete is delivered only when
\* download() returns Ok.
C13_ErrorMeansOnError ==
    FacadeReturned =>
        \A o \in observers :
            /\ ret # "Ok" => observed[o].on_error = 1 /\ observed[o].on_complete = 0
            /\ observed[o].on_complete > 0 => ret = "Ok"

\* C14: with an origin that refuses every connection download() launches
\* the ranges, returns MaxRetryExceeded, and on_error fires.
C14_RefusedMeansMaxRetry ==
    (server = "refuse" /\ FacadeReturned) =>
        /\ Invoked("download")
        /\ ret = "MaxRetryExceeded"
        /\ \A o \in observers : observed[o].on_error = 1

C16_PhasesInOrder ==
    /\ Len(phases) <= 3
    /\ \A k \in 1..Len(phases) :
          /\ phases[k].op = PhaseOrder[k]
          /\ k > 1 => phases[k - 1].res = "Ok"
    /\ (Len(phases) >= 2 /\ phases[2].res # "Ok") =>
          ~Invoked("postprocess") /\ ~output.exists
    /\ facade = "join_all" <=> (Len(phases) = 2 /\ phases[2].res = "pending")
    /\ FacadeReturned => ~progress_tx /\ ret = phases[Len(phases)].res

\* stop() during the download phase: download() returned Cancelled
C16_Witness ==
    FacadeReturned /\ ret = "Cancelled" /\ Len(phases) = 2 /\ cancelled

\* ------------------------------------------------------- planner claims
Lengths(segs) == {segs[i].length : i \in 1..Len(segs)}

\* the indices S of segs in ascending order of offset
RECURSIVE OffsetOrder(_, _)
OffsetOrder(segs, S) ==
    IF S = {} THEN <<>>
    ELSE LET m == CHOOSE i \in S : \A j \in S : segs[i].offset <= segs[j].offset
         IN  <<m>> \o OffsetOrder(segs, S \ {m})

ByOffset(segs) == OffsetOrder(segs, 1..Len(segs))

RECURSIVE SumLengths(_)
SumLengths(segs) ==
    IF segs = <<>> THEN 0 ELSE Head(segs).length + SumLengths(Tail(segs))

\* the largest power of two p with p * unit <= size
RECURSIVE Pow2Floor(_, _)
Pow2Floor(size, unit) ==
    IF size < 2 * unit THEN 1 ELSE 2 * Pow2Floor(size \div 2, unit)

IsPow2(n) == n >= 1 /\ Pow2Floor(n, 1) = n

Planned == ~planning

\* C17: at every step of the planner, and so in the plan it returns, the
\* ranges are pairwise disjoint, contiguous in offset order starting at 0,
\* and their lengths sum to the resource size.
C17_PlannerCovers ==
    LET n == Len(plan)
        p == ByOffset(plan)
    IN  /\ plan[p[1]].offset = 0
        /\ \A k \in 1..(n - 1) :
              plan[p[k + 1]].offset = plan[p[k]].offset + plan[p[k]].length
        /\ \A i, j \in 1..n :
              i # j => \/ plan[i].offset + plan[i].length <= plan[j].offset
                       \/ plan[j].offset + plan[j].length <= plan[i].offset
        /\ SumLengths(plan) = plan_size

\* an odd size was halved more than once and the plan was returned
C17_Witness == Planned /\ plan_size % 2 = 1 /\ Len(plan) > 2

\* C18 (as claimed): for size >= min_piece and N >= 1 the planner returns
\* min(N, 2^floor(log2(size/min_piece))) ranges.
C18_PlanCount ==
    (Planned /\ plan_size >= MIN_SEGMENT_SIZE /\ plan_connections >= 1) =>
        Len(plan) = Min(plan_connections, Pow2Floor(plan_size, MIN_SEGMENT_SIZE))

\* C18 (amended): the number of ranges is at least
\* min(N, 2^floor(log2(size/min_piece))) and at most
\* min(N, floor(size/min_piece)), and it is min(N, 2^floor(..)) when the
\* size is a multiple of 2^floor(log2(size/min_piece)).
C18_PlanCountBounds ==
    (Planned /\ plan_size >= MIN_SEGMENT_SIZE /\ plan_connections >= 1) =>
        LET p == Pow2Floor(plan_size, MIN_SEGMENT_SIZE)
        IN  /\ Len(plan) >= Min(plan_connections, p)
            /\ Len(plan) <= Min(plan_connections, plan_size \div MIN_SEGMENT_SIZE)
            /\ plan_size % p = 0 => Len(plan) = Min(plan_connections, p)

\* a returned plan with more ranges than the power of two
C18_Witness ==
    /\ Planned /\ plan_connections >= 1
    /\ Len(plan) > Pow2Floor(plan_size, MIN_SEGMENT_SIZE)

\* C19 (as claimed): for N >= 1 a resource of exactly N * min_piece bytes
\* is planned as N ranges of equal length.
C19_EqualRanges ==
    (Planned /\ plan_connections >= 1
             /\ plan_size = plan_connections * MIN_SEGMENT_SIZE) =>
        Len(plan) = plan_connections /\ Cardinality(Lengths(plan)) = 1

\* C19 (amended): the same for N a power of two.
C19_EqualRangesPow2 ==
    (Planned /\ IsPow2(plan_connections)
             /\ plan_size = plan_connections * MIN_SEGMENT_SIZE) =>
        /\ Len(plan) = plan_connections
        /\ Lengths(plan) = {MIN_SEGMENT_SIZE}

\* four ranges of min_piece bytes each were planned for N = 4
C19_Witness ==
    /\ Planned /\ plan_connections = 4
    /\ plan_size = 4 * MIN_SEGMENT_SIZE /\ Len(plan) = 4

\* C20 (as claimed): at every step of the planner the largest range is at
\* most twice the smallest.
C20_Balanced ==
    \A a, b \in Lengths(plan) : a <= 2 * b

\* C20 (amended): at every step of the planner the largest range is at
\* most twice the smallest plus one byte.
C20_BalancedWithinOne ==
    \A a, b \in Lengths(plan) : a <= 2 * b + 1

\* a plan whose largest range is one byte more than twice its smallest
C20_Witness ==
    \E a, b \in Lengths(plan) : a = 2 * b + 1

\* C21: the planner splits a range only when its length is at least
\* 2 * min_piece, both parts of a split are at least min_piece long, so no
\* range of a plan of several ranges is shorter than min_piece; and a
\* resource smaller than 2 * min_piece is planned as the single range
\* [0, size) whatever the concurrency.
C21_SplitOnlyAboveTwiceMin ==
    /\ [][plan' # plan =>
            LET m == max_idx(plan)
            IN  /\ plan[m].length >= 2 * MIN_SEGMENT_SIZE
                /\ Len(plan') = Len(plan) + 1
                /\ plan'[m].length >= MIN_SEGMENT_SIZE
                /\ plan'[Len(plan')].length >= MIN_SEGMENT_SIZE
                /\ \A k \in (1..Len(plan)) \ {m} : plan'[k] = plan[k]]_vars
    /\ [](Len(plan) > 1 =>
            \A k \in 1..Len(plan) : plan[k].length >= MIN_SEGMENT_SIZE)
    /\ [](plan_size < 2 * MIN_SEGMENT_SIZE =>
            plan = <<Segment_new(1, 0, plan_size)>>)

\* the planner stopped short of the concurrency asked for, with a range of
\* exactly min_piece bytes that it had split off
C21_Witness ==
    /\ Planned /\ Len(plan) > 1 /\ Len(plan) < plan_connections
    /\ \E k \in 1..Len(plan) : plan[k].length = MIN_SEGMENT_SIZE

\* ------------------------------------------------------ strategy claims
\* the ranges a preprocess is to store: the planner's when the probe reported
\* resumable and a size, one range of unknown length at offset 0 otherwise
FreshPlan ==
    IF server \notin {"norange", "nosize"}
    THEN create_segments(fileSize, Connections)
    ELSE <<Segment_new(1, 0, UNKNOWN)>>

C23_UnfinishedRefused ==
    [][(postprocess /\ \E k \in 1..Len(segments) : segments[k].state # "Finished")
          => /\ last' = Returned("postprocess", "SegmentFailed")
             /\ output' = output
             /\ scratch' = scratch
             /\ data' = data
             /\ segments' = segments]_vars

\* postprocess refused a map with a Finished and a Failed range, whose
\* scratch files are still there
C23_Witness ==
    /\ call = "idle" /\ last = Returned("postprocess", "SegmentFailed")
    /\ ~output.exists
    /\ \E i, j \in 1..Len(segments) :
          /\ segments[i].state = "Finished" /\ segments[j].state = "Failed"
          /\ {i, j} \subseteq scratch /\ data[j] # <<>>

\* the scratch files of the ranges `ids`, one after the other
RECURSIVE ConcatScratch(_)
ConcatScratch(ids) ==
    IF ids = <<>> THEN <<>> ELSE data[Head(ids)] \o ConcatScratch(Tail(ids))

\* the sum of the sizes of the scratch files of the ranges `ids`
RECURSIVE SumScratch(_)
SumScratch(ids) ==
    IF ids = <<>> THEN 0 ELSE Len(data[Head(ids)]) + SumScratch(Tail(ids))

\* C24: a postprocess called with every range Finished returns Ok or an I/O
\* error; when it returns Ok the output file holds the scratch files of the
\* ranges concatenated in ascending order of offset, whatever order the map
\* was iterated in, and its size is the sum of the scratch file sizes.
C24_AssembledInOffsetOrder ==
    [][(postprocess /\ \A k \in 1..Len(segments) : segments[k].state = "Finished")
          => /\ last'.op = "postprocess" /\ last'.res \in {"Ok", "Disk"}
             /\ last'.res = "Ok" =>
                   /\ output'.exists
                   /\ output'.data = ConcatScratch(ByOffset(segments))
                   /\ Len(output'.data) = SumScratch(ByOffset(segments))]_vars

\* two ranges were assembled, first the one at offset 0, into an output
\* that is not the resource
C24_Witness ==
    /\ call = "idle" /\ last = Returned("postprocess", "Ok")
    /\ Len(segments) = 2 /\ segments[1].offset < segments[2].offset
    /\ output.data = data[1] \o data[2]
    /\ output.data # Origin

\* C25: a step that removes a scratch file is a postprocess that returns Ok
\* and has written the whole output (every scratch file, in offset order)
\* before; a preprocess, download or postprocess that returns an error, an
\* I/O error in the middle of the assembly included, leaves every scratch
\* file and its contents in place, and so does a range task that fails.
C25_ScratchKeptOnFailure ==
    [][/\ (\E i \in scratch : i \notin scratch') =>
               /\ postprocess
               /\ last' = Returned("postprocess", "Ok")
               /\ output'.exists
               /\ output'.data = ConcatScratch(ByOffset(segments))
       /\ ((preprocess \/ download_join \/ postprocess) /\ last'.res # "Ok") =>
               scratch' = scratch /\ data' = data
       /\ \A i \in Ids : (result[i] = "none" /\ result'[i] \in Errors) =>
               scratch' = scratch /\ data' = data]_vars

\* the assembly of two ranges failed after the first scratch file was
\* copied: both scratch files are still there
C25_Witness ==
    /\ call = "idle" /\ last = Returned("postprocess", "Disk")
    /\ Len(segments) = 2 /\ scratch = {1, 2}
    /\ output.exists /\ output.data = data[1] /\ data[1] # <<>>

\* ------------------------------------------------------- progress claims
\* the bytes of range i announced by the events queued in q
RECURSIVE QueuedBytes(_, _)
QueuedBytes(q, i) ==
    IF q = <<>> THEN 0
    ELSE (IF Head(q).ok /\ Head(q).ev.segment_id = i
          THEN Head(q).ev.bytes_delta ELSE 0) + QueuedBytes(Tail(q), i)

\* C26: a fetcher that is reading a body can always take the next chunk,
\* whatever the state of the progress channel; a step that writes bytes to
\* a scratch file advances `downloaded` of that range by the same number
\* and does not end the task with an error; it leaves the queue as it was
\* when the queue is full, and otherwise at most appends its own event.
C26_ProgressNeverBlocks ==
    /\ [](\A i \in Ids :
            (pc[i] = "stream" /\ body[i] # <<>>) =>
                ENABLED (chunk_ok(i, 1) /\ UNCHANGED <<facv, planv, histv, srvv>>))
    /\ [][\A i \in Ids : Len(data'[i]) > Len(data[i]) =>
            LET delta == Len(data'[i]) - Len(data[i])
            IN  /\ seg'[i].downloaded = seg[i].downloaded + delta
                /\ result'[i] \in {"none", "Finished"}
                /\ Len(chan) >= CHANNEL_CAPACITY => chan' = chan
                /\ \/ chan' = chan
                   \/ chan' = Append(chan,
                          ProgressEvent(i, delta,
                              IF seg[i].length > 0 THEN seg[i].length
                              ELSE UNKNOWN))]_vars

\* the queue is full and nothing was delivered yet, and a range is Finished
\* with more bytes than the queue announces for it: events of it were
\* dropped
C26_Witness ==
    /\ notifier = "running" /\ Len(chan) = CHANNEL_CAPACITY
    /\ \A o \in observers : observed[o].on_progress = 0
    /\ \E i \in Ids : /\ result[i] = "Finished"
                       /\ Len(data[i]) = seg[i].downloaded
                       /\ seg[i].downloaded > QueuedBytes(chan, i)

\* the sum of the per-range bytes_downloaded of the snapshot built from agg
\* (notifier.rs:136-155)
RECURSIVE SumBytes(_, _)
SumBytes(agg, ids) ==
    IF ids = <<>> THEN 0
    ELSE agg.segments[Head(ids)].bytes_downloaded + SumBytes(agg, Tail(ids))

SnapshotBytes == SumBytes(aggregate, aggregate.segment_order)

\* C27 (as claimed): when download() has returned Ok from an origin that
\* honours Range, every observer has received on_progress and the
\* per-range bytes of the last snapshot sum to the size of the resource.
C27_ProgressAddsUp ==
    (FacadeReturned /\ ret = "Ok" /\ server = "range") =>
        /\ \A o \in observers : observed[o].on_progress >= 1
        /\ SnapshotBytes = fileSize

\* C27 (amended): every observer has received on_progress, and the
\* per-range bytes of the last snapshot sum to at least one byte and at
\* most the size of the resource; they sum to the size when the resource
\* has no more bytes than the channel has slots, so that no event can find
\* the channel full.
C27_ProgressAddsUpUnlessDropped ==
    (FacadeReturned /\ ret = "Ok" /\ server = "range") =>
        /\ \A o \in observers : observed[o].on_progress >= 1
        /\ SnapshotBytes >= 1
        /\ SnapshotBytes <= fileSize
        /\ fileSize <= CHANNEL_CAPACITY => SnapshotBytes = fileSize

\* download() returned Ok for two ranges and the last snapshot is short of
\* the resource: events were dropped
C27_Witness ==
    /\ FacadeReturned /\ ret = "Ok" /\ server = "range"
    /\ Len(segments) = 2 /\ output.data = Origin
    /\ SnapshotBytes < fileSize

\* ------------------------------------------------------- fetcher claims
\* C28: a response whose status is neither 206 nor 200 has none of its
\* body written to the scratch file, and the task that received it does
\* not return a Finished range.
C28_OnlySuccessStatusAccepted ==
    \A i \in Ids :
        (pc[i] \in {"stream", "sleep", "done"} /\ status[i] \notin {0, 200, 206}) =>
            /\ written[i] = 0
            /\ result[i] # "Finished"

\* C29: the request a task has in flight for a range of known length asks
\* for bytes offset + downloaded .. offset + length - 1, with downloaded as
\* it was when the request was built, which is the size of the scratch
\* file: the first byte not yet written; start <= end; a range of unknown
\* length is requested without Range header; and within a call downloaded
\* never decreases and no request starts before the one it follows.
C29_RangeHeaderResumes ==
    /\ [](\A i \in Ids : pc[i] \in {"send", "stream"} =>
            IF seg[i].length > 0
            THEN /\ req[i].ranged
                 /\ req[i].end = seg[i].offset + seg[i].length - 1
                 /\ req[i].start <= req[i].end
                 /\ req[i].start + (IF pc[i] = "stream" THEN written[i] ELSE 0)
                        = seg[i].offset + seg[i].downloaded
                 /\ pc[i] = "send" =>
                        req[i].start = seg[i].offset + Len(data[i])
            ELSE ~req[i].ranged)
    /\ [][\A i \in Ids :
            /\ pc[i] \in {"top", "send", "stream", "sleep"} =>
                  seg'[i].downloaded >= seg[i].downloaded
            /\ (sent[i] >= 1 /\ sent'[i] = sent[i] + 1) =>
                  req'[i].start >= req[i].start]_vars

\* the third request of a task asks for the last byte of its range only
C29_Witness ==
    \E i \in Ids :
        /\ pc[i] = "send" /\ sent[i] = 3 /\ seg[i].length > 1
        /\ req[i].start = req[i].end
        /\ req[i].start = seg[i].offset + seg[i].downloaded

\* C30: on an origin that honours Range, a fetch that returns Finished
\* leaves a scratch file of exactly `length` bytes, the resource's bytes
\* [offset, offset + length), also when it is the fetch that follows a
\* fetch of the same range cancelled in the middle of its body: the bytes
\* written before the cancellation are there once.
C30_RefetchAfterCancelExact ==
    \A i \in Ids : result[i] = "Finished" =>
        /\ i \in scratch
        /\ seg[i].downloaded = seg[i].length
        /\ Len(data[i]) = seg[i].length
        /\ data[i] = Slice(seg[i].offset, seg[i].offset + seg[i].length - 1)

\* a fetch whose only request started in the middle of the range, after
\* the bytes a cancelled fetch had left, has returned Finished
C30_Witness ==
    \E i \in Ids :
        /\ result[i] = "Finished" /\ sent[i] = 1 /\ fails[i] = 0
        /\ req[i].start > seg[i].offset
        /\ Len(data[i]) = seg[i].length

\* C31: pause() and stop() can be called in every state, whatever the
\* range tasks are doing, and are the same step: the token becomes
\* cancelled and nothing else changes, so a call on a cancelled token
\* changes nothing; no step resets the token; and a task that takes its
\* first step with the token cancelled, as every task of a download()
\* started after the call does, returns Cancelled without sending a request.
C31_PauseStopTripForGood ==
    /\ [](ENABLED (stop /\ UNCHANGED <<facv, planv, histv, srvv>>))
    /\ [][/\ stop <=> pause
          /\ (cancelled /\ stop) => UNCHANGED vars
          /\ stop => /\ cancelled'
                      /\ <<envv, taskv, fsv, chanv>>' = <<envv, taskv, fsv, chanv>>
                      /\ <<planned, segments, call, order, last>>'
                            = <<planned, segments, call, order, last>>
          /\ cancelled => cancelled'
          /\ \A i \in Ids :
                (cancelled /\ pc[i] = "top" /\ sent[i] = 0 /\ pc'[i] # "top") =>
                    /\ result'[i] = "Cancelled"
                    /\ sent'[i] = 0 /\ req'[i] = NoRequest]_vars

\* a download() of two ranges returned Cancelled and no task of it has
\* sent a request
C31_Witness ==
    /\ cancelled /\ DownloadReturned /\ last.res = "Cancelled"
    /\ Len(order) = 2
    /\ \A i \in Launched : result[i] = "Cancelled" /\ sent[i] = 0
    /\ \A k \in 1..Len(segments) : segments[k].state = "Failed"

\* C32: the n-th sleep of a fetch lasts 100 ms * 2^(n-1): 100 ms before
\* the first retry and twice the previous delay before each later one.
\* (retries[i] is the number of failures so far, so it is n while the
\* task is in its n-th sleep.)
C32_BackoffFrom100 ==
    \A i \in Ids :
        pc[i] = "sleep" => delay_ms(retries[i]) = 100 * (2 ^ (retries[i] - 1))

\* C35: a download() call launches a task for exactly the ranges whose
\* map entry is NotStarted; when there is none it returns Ok at once: no
\* task is launched, no request sent, no message queued, and the map and
\* the files are left as they were.
C35_LaunchesExactlyNotStarted ==
    [][LET NotStarted == {i \in 1..Len(segments) :
                             segments[i].state = "NotStarted"}
       IN  (download_noop \/ download_spawn) =>
             IF NotStarted = {}
             THEN /\ last' = Returned("download", "Ok")
                  /\ call' = "idle" /\ order' = <<>>
                  /\ \A i \in Ids : pc'[i] = "idle" /\ sent'[i] = 0
                  /\ chan' = chan
                  /\ segments' = segments /\ fsv' = fsv
             ELSE /\ call' = "download"
                  /\ Launched' = NotStarted
                  /\ \A i \in Ids : pc'[i] = "top" <=> i \in NotStarted
                  /\ \A i \in Ids : pc'[i] = "idle" <=> i \notin NotStarted]_vars

\* a second download(), after one that left a range Finished and a range
\* Failed, has returned Ok with nothing launched
C35_Witness ==
    /\ last = Returned("download", "Ok")
    /\ call = "idle" /\ order = <<>>
    /\ Len(segments) = 2
    /\ segments[1].state = "Failed" /\ segments[2].state = "Finished"
    /\ \A i \in Ids : pc[i] = "idle" /\ sent[i] = 0

\* C36: when download() writes the results to the map, the entry of a
\* range whose task returned an error changes in its state only, which
\* becomes Failed, and the entry of a range whose task returned Ok becomes
\* the descriptor the task returned; so a Failed entry is the planned
\* descriptor with downloaded = 0, whatever its scratch file holds.
C36_FailedEntryKeepsFields ==
    /\ [][download_join =>
            \A i \in 1..Len(segments) :
                /\ i \notin Launched => segments'[i] = segments[i]
                /\ (i \in Launched /\ result[i] = "Finished") =>
                      /\ segments'[i] = seg[i]
                      /\ segments'[i].state = "Finished"
                /\ (i \in Launched /\ result[i] \in Errors) =>
                      /\ segments'[i].state = "Failed"
                      /\ segments'[i].id = segments[i].id
                      /\ segments'[i].offset = segments[i].offset
                      /\ segments'[i].length = segments[i].length
                      /\ segments'[i].downloaded = segments[i].downloaded]_vars
    /\ [](\A i \in 1..Len(segments) :
            segments[i].state = "Failed" =>
                /\ segments[i] = [preprocess_plan[i] EXCEPT !.state = "Failed"]
                /\ segments[i].downloaded = 0)

\* download() has returned an error: range 1 is Failed with downloaded 0
\* though its scratch file holds a byte and its task had counted it, and
\* range 2 is Finished with the bytes its task downloaded
C36_Witness ==
    /\ DownloadReturned /\ last.res \in Errors
    /\ Len(segments) = 2
    /\ segments[1].state = "Failed" /\ segments[1].downloaded = 0
    /\ 1 \in scratch /\ Len(data[1]) > 0 /\ seg[1].downloaded > 0
    /\ segments[2].state = "Finished"
    /\ segments[2].downloaded = segments[2].length
    /\ segments[2] = seg[2]

\* ------------------------------------------------------ notifier claims
\* the bytes_delta of the events of evs that are about range i, summed
RECURSIVE DeltaSum(_, _)
DeltaSum(evs, i) ==
    IF evs = <<>> THEN 0
    ELSE (IF Head(evs).segment_id = i THEN Head(evs).bytes_delta ELSE 0)
         + DeltaSum(Tail(evs), i)

\* the ids of the events of evs, each once, in the order of their first
\* event
RECURSIVE FirstSeen(_)
FirstSeen(evs) ==
    IF evs = <<>> THEN <<>>
    ELSE LET before == FirstSeen(SubSeq(evs, 1, Len(evs) - 1))
             id == evs[Len(evs)].segment_id
         IN  IF \E k \in 1..Len(before) : before[k] = id THEN before
             ELSE Append(before, id)

\* the size the notifier keeps for range i after evs: that of the first
\* event of the range that carries one (0: none yet)
RECURSIVE TotalOf(_, _)
TotalOf(evs, i) ==
    IF evs = <<>> THEN 0
    ELSE IF /\ Head(evs).segment_id = i
            /\ Head(evs).total_bytes \notin {UNKNOWN, 0}
         THEN Head(evs).total_bytes
         ELSE TotalOf(Tail(evs), i)

\* the sum of a sequence of numbers
RECURSIVE SeqSum(_)
SeqSum(q) == IF q = <<>> THEN 0 ELSE Head(q) + SeqSum(Tail(q))

\* snap lists the ranges of evs in first-seen order, each with the sum of
\* its deltas, and its total is the sum of all deltas
Accumulates(snap, evs) ==
    /\ [k \in 1..Len(snap.segments) |-> snap.segments[k].segment_id]
         = FirstSeen(evs)
    /\ \A k \in 1..Len(snap.segments) :
         snap.segments[k].bytes_downloaded
            = DeltaSum(evs, snap.segments[k].segment_id)
    /\ snap.total_bytes_downloaded
         = SeqSum([k \in 1..Len(snap.segments) |->
                      snap.segments[k].bytes_downloaded])
    /\ snap.total_bytes_downloaded
         = SeqSum([k \in 1..Len(evs) |-> evs[k].bytes_delta])

\* C33: after any sequence of events the notifier tracks exactly the
\* ranges seen, each with the sum of the bytes_delta of its events; the
\* snapshot built from it lists the ranges in first-seen order with those
\* sums, and its total_bytes_downloaded is the sum over the ranges.
C33_AggregatorSums ==
    /\ DOMAIN aggregate.segments
         = {received[k].segment_id : k \in 1..Len(received)}
    /\ aggregate.segment_order = FirstSeen(received)
    /\ \A i \in DOMAIN aggregate.segments :
         aggregate.segments[i].bytes_downloaded = DeltaSum(received, i)
    /\ delivered.callback # "none" => Accumulates(delivered.snapshot, received)

\* three events, range 2 seen before range 1 and seen twice
C33_Witness ==
    /\ Len(received) = 3
    /\ delivered.callback = "on_progress"
    /\ [k \in 1..Len(delivered.snapshot.segments) |->
            delivered.snapshot.segments[k].segment_id] = <<2, 1>>
    /\ received[1].segment_id = 2 /\ received[3].segment_id = 2
    /\ received[1].bytes_delta > 0 /\ received[3].bytes_delta > 0
    /\ delivered.snapshot.segments[1].bytes_downloaded
         = received[1].bytes_delta + received[3].bytes_delta
    /\ delivered.snapshot.total_bytes_downloaded
         > delivered.snapshot.segments[1].bytes_downloaded

\* C34: a snapshot passed to on_progress has done = false; the snapshot
\* passed to on_complete has done = true, eta 0, and the totals of all
\* the events received: per range and overall the bytes downloaded, and
\* the sizes of the ranges.
C34_DoneOnlyOnComplete ==
    /\ delivered.callback = "on_progress" => ~delivered.snapshot.done
    /\ delivered.callback = "on_complete" =>
         /\ delivered.snapshot.done
         /\ delivered.snapshot.eta_secs.num = 0
         /\ Accumulates(delivered.snapshot, received)
         /\ delivered.snapshot.total_bytes
              = SeqSum([k \in 1..Len(FirstSeen(received)) |->
                           TotalOf(received, FirstSeen(received)[k])])
         /\ chan = <<>> /\ closed

\* on_complete after three events, with bytes still missing of the sizes
\* announced
C34_Witness ==
    /\ delivered.callback = "on_complete"
    /\ \A o \in observers : observed[o].on_complete = 1
    /\ Len(received) = 3
    /\ delivered.snapshot.total_bytes_downloaded > 0
    /\ delivered.snapshot.total_bytes > delivered.snapshot.total_bytes_downloaded

\* C37: the bytes the notifier has counted for a range, together with
\* those of the events of the range still queued, are never more than the
\* bytes the range's fetcher has written (its downloaded counter, which is
\* the size of its scratch file while the file exists); the total of a
\* snapshot is never more than the sum of the bytes written.
C37_NeverOverReports ==
    /\ \A i \in Ids :
          /\ i \in DOMAIN aggregate.segments =>
                /\ i \in Launched
                /\ aggregate.segments[i].bytes_downloaded + QueuedBytes(chan, i)
                      <= seg[i].downloaded
          /\ (i \in Launched /\ i \in scratch) => seg[i].downloaded = Len(data[i])
          /\ QueuedBytes(chan, i) > 0 => i \in Launched
    /\ SnapshotBytes
          <= SeqSum([k \in 1..Len(order) |-> seg[order[k]].downloaded])

\* a run of two ranges with a retry has ended: the notifier has counted
\* bytes of both, fewer than were written
C37_Witness ==
    /\ FacadeReturned /\ notifier = "done"
    /\ Len(order) = 2
    /\ \E i \in Ids : fails[i] > 0 /\ seg[i].downloaded > 0
    /\ \A i \in Ids : /\ i \in DOMAIN aggregate.segments
                       /\ aggregate.segments[i].bytes_downloaded >= 1
    /\ SnapshotBytes < SeqSum([k \in 1..Len(order) |-> seg[order[k]].downloaded])


\* -------------------------------------------------------- server claims
\* C38: a cancel_handler call that has found the entry of a download
\* whose download() is running can call stop(): it does not have to wait
\* for download() to return.
C38_CancelReachesRunningDownload ==
    (canceller = "locked" /\ downloader_locked /\ facade # "returned") =>
        ENABLED cancel_stop

\* C39: the download task of a dispatched download finds its entry in
\* the downloads map, whatever the order in which it and the registering
\* task run, and so goes on to call download().
C39_TaskFindsEntry == dl_task # "missing"
====
